---- MODULE Spec2Model ----
(***************************************************************************)
(* Model of StreamManager (src/streaming/stream_manager.py): the session   *)
(* table, the per-session adapter tasks, push (_process_stream_data),      *)
(* process_stream and the synchronous manager calls, as they run on one    *)
(* asyncio event loop.  One action is one run of a coroutine between two   *)
(* suspension points (await of a timer), or one whole synchronous call.    *)
(*                                                                         *)
(* Time is counted in whole seconds.                                       *)
(*                                                                         *)
(* The ensemble scoring engine (src/core/sentiment_analyzer.py and         *)
(* src/core/emotion_detector.py) is modelled as functions of the loaded    *)
(* backends, the weights and what each backend's scoring function does.    *)
(***************************************************************************)
EXTENDS Integers, Sequences, FiniteSets, TLC

(* ------------------------------ bounds -------------------------------- *)

\* sessions that start_stream may create in one run
MaxSessions == 1
\* items one session's buffer may hold
MaxItems == 2
\* callbacks registered in total
MaxCallbacks == 2
\* process_stream calls that may be suspended at the same time
MaxProcs == 2

(* --------------------------- program constants ------------------------ *)

\* asyncio.sleep(1) of the custom adapter
CUSTOM_SLEEP == 1
\* asyncio.sleep(5) of the reddit search adapter
REDDIT_SLEEP == 5

KnownSources == {"twitter", "reddit", "kafka", "custom"}
\* sources a caller may pass: the four known ones and one that is not
Sources == KnownSources \cup {"rss"}
\* durations a caller may pass: 0 (indefinite) and one second
Durations == {0, 1}
\* reddit queries: a subreddit ("r/...") or a search string
Queries == {"r/sub", "term"}
\* a session id no start_stream ever returned (uuid4 values do not repeat)
NoSuchId == 0
\* registered callbacks: one that returns and one that raises
Callbacks == {"cb_ok", "cb_raise"}
None == "None"
Terminal == {"completed", "error", "stopped"}

VARIABLES
    active_streams,   \* self.active_streams: id -> session record
    stream_results,   \* self.stream_results: id -> buffer (sequence of items)
    stream_callbacks, \* self.stream_callbacks: id -> sequence of callbacks
    task,             \* the adapter task of each session (asyncio.create_task)
    procs,            \* the process_stream coroutines: slot -> where it is suspended
    ret,              \* the manager call made by the last step and its outcome
    hist              \* history of each session, read by the properties only

VARIABLES
    analyzer,         \* SentimentAnalyzer: self.models (keys) and the custom weights
    detector,         \* EmotionDetector: self.models (keys) and the custom weights
    result            \* the last call of the engine: what it returned or that it raised

\* the state of the StreamManager and the state of the scoring engine
manager == <<active_streams, stream_results, stream_callbacks, task, procs, ret, hist>>
engine == <<analyzer, detector, result>>

vars == <<active_streams, stream_results, stream_callbacks, task, procs, ret, hist,
          analyzer, detector, result>>

(* ------------------------------ helpers ------------------------------- *)

Min(a, b) == IF a < b THEN a ELSE b
Max(a, b) == IF a > b THEN a ELSE b

Ids == DOMAIN active_streams

\* the outcome recorded for a step that is no manager call
NoCall == [op |-> "none", sid |-> NoSuchId, out |-> None, analyzed |-> FALSE]

\* a manager call, the id it was given and what its caller got back
Call(op, sid, out) == [op |-> op, sid |-> sid, out |-> out, analyzed |-> FALSE]

\* uuid.uuid4(): an id never handed out before
NewId == Cardinality(Ids) + 1

\* the record start_stream stores for a new session (query is kept, the
\* wall-clock start_time is not read by any code and is left out)
NewSession(source, query, duration) ==
    [source |-> source, query |-> query, duration |-> duration,
     status |-> "initializing", data_count |-> 0, error |-> None]

\* an adapter task: where it is suspended, the seconds since its start_time
\* (counted up to one past the duration, all that the elapsed check reads,
\* and not at all when the duration is 0 and the check never reads it),
\* and the seconds left on the timer it awaits
NoTask == [pc |-> "none", elapsed |-> 0, timer |-> 0]
NewTask == [pc |-> "ready", elapsed |-> 0, timer |-> 0]
\* the task has returned: its clock and timer are gone
DoneTask == [pc |-> "done", elapsed |-> 0, timer |-> 0]

\* history of a session: whether stop_stream stopped it while running, the
\* pushes of its adapter since then and the times its loop went round since
\* then (both counted up to 2), the callbacks the last push invoked, and how the
\* last process_stream call to return since the last push ended ("no",
\* "exhausted" or "aborted")
NoHist == [stopped |-> FALSE, pushesAfterStop |-> 0, loopsAfterStop |-> 0,
           invoked |-> <<>>, returned |-> "no", raised |-> 0]

\* the item _process_stream_data appends; scored counts the analyze calls
\* whose result was stored into the item (history, read by properties only)
NewItem(text) ==
    [text |-> text, processed |-> FALSE, sentiment |-> None,
     emotions |-> None, processed_text |-> None, scored |-> 0]

\* a process_stream coroutine: idle (not called, or returned), or suspended
\* at sleep(0) with its enumerate() about to yield index i
IdleProc == [pc |-> "idle", sid |-> NoSuchId, i |-> 0]

\* text_processor.process and sentiment_analyzer.analyze: opaque, pure
Process(text) == <<"clean", text>>
Analyze(ptext) == <<"sentiment", ptext>>

\* the text the n-th item of a session carries
SampleText(n) == n

\* duration > 0 and time.time() - start_time > duration
Elapsed(s) ==
    /\ active_streams[s].duration > 0
    /\ task[s].elapsed > active_streams[s].duration

(* ====================== ensemble scoring engine ======================= *)
(* SentimentAnalyzer._analyze_with_ensemble (src/core/sentiment_analyzer   *)
(* .py) and EmotionDetector._detect_with_ensemble (src/core/emotion_       *)
(* detector.py).  Scores and weights are exact rationals: the rounding of  *)
(* the floating-point operations is not modelled.                          *)

RECURSIVE GCD(_, _)
GCD(a, b) == IF b = 0 THEN a ELSE GCD(b, a % b)

Abs(x) == IF x < 0 THEN 0 - x ELSE x

\* the rational n/d (d > 0) in lowest terms
Rat(n, d) ==
    LET g == GCD(Abs(n), d)
    IN  [num |-> n \div g, den |-> d \div g]

Zero == Rat(0, 1)
One == Rat(1, 1)
RatAdd(x, y) == Rat(x.num * y.den + y.num * x.den, x.den * y.den)
RatMul(x, y) == Rat(x.num * y.num, x.den * y.den)
\* x / y for y > 0
RatDiv(x, y) == Rat(x.num * y.den, x.den * y.num)
RatAbs(x) == [num |-> Abs(x.num), den |-> x.den]
RatGt(x, y) == x.num * y.den > y.num * x.den

RECURSIVE RatSum(_, _)
\* sum(f[m] for m in S)
RatSum(f, S) ==
    IF S = {} THEN Zero
    ELSE LET m == CHOOSE x \in S : TRUE
         IN  RatAdd(f[m], RatSum(f, S \ {m}))

(* --------------------------- sentiment -------------------------------- *)

\* the scoring backends of the sentiment ensemble
Backends == {"bert", "vader", "textblob"}

\* the literal weights of _load_custom_model and of the ensemble's default
DefaultWeights ==
    [bert |-> Rat(6, 10), vader |-> Rat(3, 10), textblob |-> Rat(1, 10)]

\* weights self.models["custom"]["weights"] may hold: the literal ones,
\* equal ones and ones whose total is not 1
WeightConfigs ==
    { DefaultWeights,
      [bert |-> Rat(1, 2), vader |-> Rat(1, 2), textblob |-> Rat(1, 2)],
      [bert |-> Rat(2, 1), vader |-> Rat(1, 1), textblob |-> Rat(3, 1)] }

\* what one backend's scoring function does on the text: it raises, or it
\* returns its "scores" (softmax of two classes for bert; pos/neg/neu for
\* vader; polarity for textblob)
Raises == [raised |-> TRUE]
Returns(scores) == [raised |-> FALSE, scores |-> scores]

BertOutcomes ==
    { Raises,
      Returns([positive |-> One, negative |-> Zero]),
      Returns([positive |-> Rat(1, 2), negative |-> Rat(1, 2)]),
      Returns([positive |-> Rat(2, 10), negative |-> Rat(8, 10)]) }

VaderOutcomes ==
    { Raises,
      Returns([positive |-> Rat(8, 10), negative |-> Rat(1, 10), neutral |-> Rat(1, 10)]),
      Returns([positive |-> Rat(1, 10), negative |-> Rat(6, 10), neutral |-> Rat(3, 10)]),
      Returns([positive |-> Rat(4, 10), negative |-> Rat(4, 10), neutral |-> Rat(2, 10)]),
      Returns([positive |-> Zero, negative |-> Zero, neutral |-> One]) }

TextblobOutcomes ==
    { Raises,
      Returns([polarity |-> One]),
      Returns([polarity |-> Zero]),
      Returns([polarity |-> Rat(0 - 1, 2)]) }

\* the outcomes of the three scoring functions on one text
SentimentOutcomes ==
    { [bert |-> b, vader |-> v, textblob |-> t] :
        b \in BertOutcomes, v \in VaderOutcomes, t \in TextblobOutcomes }

\* the analyzers: self.models holds any of the three backends and, with
\* "custom", the configured weights
Analyzers ==
    { [models |-> M, weights |-> DefaultWeights] : M \in SUBSET Backends }
    \cup
    { [models |-> M \cup {"custom"}, weights |-> w] :
        M \in SUBSET Backends, w \in WeightConfigs }

\* weights = self.models["custom"]["weights"] if "custom" in self.models
\* else the literal
EnsembleWeights(a) ==
    IF "custom" \in a.models THEN a.weights ELSE DefaultWeights

\* total_weight = sum(weights[model] for model in available_models ...)
TotalWeight(weights, available) ==
    RatSum(weights, available \cap DOMAIN weights)

NormalizedWeightsRaw(weights, available) ==
    [m \in available \cap DOMAIN weights |-> weights[m]]

\* normalized_weights = {model: weights[model] / total_weight ...}
NormalizedWeights(weights, available) ==
    [m \in available \cap DOMAIN weights |->
        RatDiv(weights[m], TotalWeight(weights, available))]

\* what one backend adds to the three scores (the loop over results)
NoShare == [positive |-> Zero, negative |-> Zero, neutral |-> Zero]

BertShare(scores, w) ==
    [positive |-> RatMul(scores.positive, w),
     negative |-> RatMul(scores.negative, w),
     neutral |-> Zero]

VaderShareTwoWay(scores, w) ==
    [positive |-> RatMul(scores.positive, w),
     negative |-> RatMul(scores.negative, w),
     neutral |-> Zero]

VaderShare(scores, w) ==
    [positive |-> RatMul(scores.positive, w),
     negative |-> RatMul(scores.negative, w),
     neutral |-> RatMul(scores.neutral, w)]

\* a neutral TextBlob result counted as a whole vote instead of its weight
TextblobShareUnweighted(scores, w) ==
    LET polarity == scores.polarity
    IN  IF RatGt(polarity, Zero)
        THEN [NoShare EXCEPT !.positive = RatMul(polarity, w)]
        ELSE IF RatGt(Zero, polarity)
        THEN [NoShare EXCEPT !.negative = RatMul(RatAbs(polarity), w)]
        ELSE [NoShare EXCEPT !.neutral = One]

TextblobShare(scores, w) ==
    LET polarity == scores.polarity
    IN  IF RatGt(polarity, Zero)
        THEN [NoShare EXCEPT !.positive = RatMul(polarity, w)]
        ELSE IF RatGt(Zero, polarity)
        THEN [NoShare EXCEPT !.negative = RatMul(RatAbs(polarity), w)]
        ELSE [NoShare EXCEPT !.neutral = w]

Share(model, scores, w) ==
    IF model = "bert" THEN BertShare(scores, w)
    ELSE IF model = "vader" THEN VaderShare(scores, w)
    ELSE TextblobShare(scores, w)

\* the three weighted scores over the backends that returned
WeightedScores(outcome, normalized, available) ==
    LET share == [m \in Backends |->
                    IF m \in available
                    THEN Share(m, outcome[m].scores, normalized[m])
                    ELSE NoShare]
    IN  [b \in {"positive", "negative", "neutral"} |->
            RatAdd(share["bert"][b],
                   RatAdd(share["vader"][b], share["textblob"][b]))]

FinalSentimentLoose(scores) ==
    IF ~RatGt(scores["negative"], scores["positive"])
       /\ ~RatGt(scores["neutral"], scores["positive"])
    THEN "positive"
    ELSE IF ~RatGt(scores["positive"], scores["negative"])
            /\ ~RatGt(scores["neutral"], scores["negative"])
    THEN "negative"
    ELSE "neutral"

\* "Determine final sentiment"
FinalSentiment(scores) ==
    IF RatGt(scores["positive"], scores["negative"])
       /\ RatGt(scores["positive"], scores["neutral"])
    THEN "positive"
    ELSE IF RatGt(scores["negative"], scores["positive"])
            /\ RatGt(scores["negative"], scores["neutral"])
    THEN "negative"
    ELSE "neutral"

\* the result of a call that raised
Raised(kind, outcome) ==
    [kind |-> kind, raised |-> TRUE, outcome |-> outcome,
     normalized_weights |-> <<>>, scores |-> <<>>,
     sentiment |-> None, confidence |-> Zero]

\* _analyze_with_ensemble(text), as analyze() calls it: outcome tells what
\* each scoring function does on the text
AnalyzeWithEnsemble(a, outcome) ==
    LET available == a.models \cap Backends
    IN  IF \E m \in available : outcome[m].raised
        THEN Raised("sentiment", outcome)
        ELSE LET normalized == NormalizedWeights(EnsembleWeights(a), available)
                 scores == WeightedScores(outcome, normalized, available)
                 sentiment == FinalSentiment(scores)
             IN  [kind |-> "sentiment", raised |-> FALSE, outcome |-> outcome,
                  normalized_weights |-> normalized, scores |-> scores,
                  sentiment |-> sentiment, confidence |-> scores[sentiment]]

(* ---------------------------- emotion --------------------------------- *)

\* self.emotions
Emotions == {"joy", "anger", "fear", "sadness", "surprise", "disgust"}

EmotionBackends == {"transformer", "rule-based"}

DefaultEmotionWeights ==
    ("transformer" :> Rat(7, 10)) @@ ("rule-based" :> Rat(3, 10))

EmotionWeightConfigs ==
    { DefaultEmotionWeights,
      ("transformer" :> Rat(1, 1)) @@ ("rule-based" :> Rat(3, 1)) }

Detectors ==
    { [models |-> M, weights |-> DefaultEmotionWeights] :
        M \in SUBSET EmotionBackends }
    \cup
    { [models |-> M \cup {"custom"}, weights |-> w] :
        M \in SUBSET EmotionBackends, w \in EmotionWeightConfigs }

EmotionWeights(d) ==
    IF "custom" \in d.models THEN d.weights ELSE DefaultEmotionWeights

UniformScores == [e \in Emotions |-> Rat(1, Cardinality(Emotions))]

ZeroScoresAsDefault == [e \in Emotions |-> Rat(1, Cardinality(Emotions))]

\* emotion_scores = {emotion: 0.0 for emotion in self.emotions}
ZeroScores == [e \in Emotions |-> Zero]

\* the vector that has all its weight on the emotions of S, evenly
Even(S) == [e \in Emotions |-> IF e \in S THEN Rat(1, Cardinality(S)) ELSE Zero]

\* what the transformer pipeline returns for the text, or that it raises
TransformerOutcomes ==
    { Raises,
      Returns([Even({"joy"}) EXCEPT !["joy"] = Rat(7, 10), !["surprise"] = Rat(2, 10)]),
      Returns(Even({"anger", "disgust"})) }

\* the emotion words the lexicon counts in the text, or that nltk raises
RuleBasedOutcomes ==
    { Raises,
      Returns([e \in Emotions |-> 0]),
      Returns([e \in Emotions |-> IF e = "joy" THEN 1 ELSE 0]),
      Returns([e \in Emotions |-> IF e \in {"fear", "sadness"} THEN 1 ELSE 0]) }

EmotionOutcomes ==
    { ("transformer" :> t) @@ ("rule-based" :> r) :
        t \in TransformerOutcomes, r \in RuleBasedOutcomes }

RECURSIVE NatSum(_, _)
NatSum(f, S) ==
    IF S = {} THEN 0
    ELSE LET m == CHOOSE x \in S : TRUE
         IN  f[m] + NatSum(f, S \ {m})

\* _detect_with_rule_based: count / total, the uniform vector when nothing
\* was counted, when the lexicon is not loaded (KeyError) or nltk raises
DetectWithRuleBased(d, outcome) ==
    LET r == outcome["rule-based"]
    IN  IF "rule-based" \notin d.models \/ r.raised
        THEN UniformScores
        ELSE LET total_count == NatSum(r.scores, Emotions)
             IN  IF total_count = 0
                 THEN UniformScores
                 ELSE [e \in Emotions |-> Rat(r.scores[e], total_count)]

\* a transformer that answers with the default vector when it raises
DetectWithTransformerUniform(d, outcome) ==
    IF outcome["transformer"].raised
    THEN UniformScores
    ELSE outcome["transformer"].scores

\* _detect_with_transformer: the pipeline's scores, the rule-based ones
\* when it raises
DetectWithTransformer(d, outcome) ==
    IF outcome["transformer"].raised
    THEN DetectWithRuleBased(d, outcome)
    ELSE outcome["transformer"].scores

\* _detect_with_ensemble(text)
DetectWithEnsemble(d, outcome) ==
    LET available == d.models \cap EmotionBackends
        results == [m \in available |->
                      IF m = "transformer"
                      THEN DetectWithTransformer(d, outcome)
                      ELSE DetectWithRuleBased(d, outcome)]
        normalized == NormalizedWeights(EmotionWeights(d), available)
        weighted == [m \in EmotionBackends |->
                       [e \in Emotions |->
                           IF m \in available
                           THEN RatMul(results[m][e], normalized[m])
                           ELSE Zero]]
    IN  [kind |-> "emotion", raised |-> FALSE, outcome |-> outcome,
         normalized_weights |-> normalized,
         scores |-> [e \in Emotions |->
                       RatAdd(ZeroScores[e],
                              RatAdd(weighted["transformer"][e],
                                     weighted["rule-based"][e]))],
         sentiment |-> None, confidence |-> Zero]

(* ----------------------------- calls ---------------------------------- *)

\* the engine the API builds next to the stream manager: every backend
\* loaded, the literal weights
TheAnalyzer == [models |-> Backends \cup {"custom"}, weights |-> DefaultWeights]
TheDetector == [models |-> EmotionBackends \cup {"custom"}, weights |-> DefaultEmotionWeights]

\* no call of the engine was made yet
NoResult ==
    [kind |-> "none", raised |-> FALSE, outcome |-> <<>>,
     normalized_weights |-> <<>>, scores |-> <<>>,
     sentiment |-> None, confidence |-> Zero]

\* analyze(text) of an analyzer whose model type is the ensemble
AnalyzeEnsemble(outcome) ==
    /\ result' = AnalyzeWithEnsemble(analyzer, outcome)
    /\ UNCHANGED <<analyzer, detector>>

\* detect(text) of a detector whose model type is the ensemble
DetectEnsemble(outcome) ==
    /\ result' = DetectWithEnsemble(detector, outcome)
    /\ UNCHANGED <<analyzer, detector>>

(* ------------------------------- Init --------------------------------- *)

Init ==
    /\ active_streams = <<>>
    /\ stream_results = <<>>
    /\ stream_callbacks = <<>>
    /\ task = <<>>
    /\ procs = [k \in 1..MaxProcs |-> IdleProc]
    /\ ret = NoCall
    /\ hist = <<>>
    /\ analyzer = TheAnalyzer
    /\ detector = TheDetector
    /\ result = NoResult

(* ------------------------- start_stream ------------------------------- *)

\* a task is inside a blocking library call (the kafka or praw iterator, or
\* tweepy's filter): the event loop runs nothing else until it returns
Blocked == \E s \in Ids : task[s].pc \in {"recv", "filter"}

\* _start_<source>_stream: launched (task created, status running) or the
\* launch raised and the except clause recorded it
LaunchedInitializing(sess) == sess
Launched(sess) == [sess EXCEPT !.status = "running"]
LaunchFailedNoMessage(sess) == [sess EXCEPT !.status = "error"]

\* except Exception as e: status = "error", error = str(e)
LaunchFailed(sess) == [sess EXCEPT !.status = "error", !.error = "launch failed"]

\* whether the launch of a source can fail: tweepy / praw / kafka imports
\* and credentials; the custom adapter only creates its task
CanFail(source) == source \in {"twitter", "reddit", "kafka"}

StartStream(source, query, duration) ==
    /\ ~Blocked
    /\ Cardinality(Ids) < MaxSessions
    /\ LET id == NewId
           sess == NewSession(source, query, duration)
       IN  /\ stream_results' = stream_results @@ (id :> <<>>)
           /\ hist' = hist @@ (id :> NoHist)
           /\ \/ /\ source \in KnownSources
                 /\ active_streams' = active_streams @@ (id :> Launched(sess))
                 /\ task' = task @@ (id :> NewTask)
                 /\ ret' = Call("start_stream", id, "stream_id")
              \/ /\ CanFail(source)
                 /\ active_streams' = active_streams @@ (id :> LaunchFailed(sess))
                 /\ task' = task @@ (id :> NoTask)
                 /\ ret' = Call("start_stream", id, "stream_id")
              \/ /\ source \notin KnownSources
                 /\ active_streams' = active_streams @@ (id :> sess)
                 /\ task' = task @@ (id :> NoTask)
                 /\ ret' = Call("start_stream", id, "ValueError")
    /\ UNCHANGED <<stream_callbacks, procs>>

(* ---------------------- _process_stream_data -------------------------- *)

\* a push whose count is not incremented
PushCountSkipped(c) == c

\* self.active_streams[stream_id]["data_count"] += 1
PushCount(c) == c + 1

\* the new item put in front of the buffer
PushItemFront(buf) == <<NewItem(SampleText(Len(buf) + 1))>> \o buf

\* self.stream_results[stream_id].append({...})
PushItem(buf) == Append(buf, NewItem(SampleText(Len(buf) + 1)))

RECURSIVE PushItems(_, _)
PushItems(buf, n) == IF n = 0 THEN buf ELSE PushItems(PushItem(buf), n - 1)

RECURSIVE PushCounts(_, _)
PushCounts(c, n) == IF n = 0 THEN c ELSE PushCounts(PushCount(c), n - 1)

\* the callbacks registered for s
CallbacksOf(s) ==
    IF s \in DOMAIN stream_callbacks THEN stream_callbacks[s] ELSE <<>>

\* whether a callback registered for s raises when it is called
CallbackRaises(s) ==
    \E i \in 1..Len(CallbacksOf(s)) : CallbacksOf(s)[i] = "cb_raise"

PushPropagated(streams, s) ==
    [streams EXCEPT ![s].status = "error", ![s].error = "callback raised"]

\* except Exception as e: logger.error(...) in _process_stream_data: what
\* a raising callback leaves of the session table
PushCaught(streams, s) == streams

\* a push that also marks the session running again
PushedSetsRunning(streams, s, n) ==
    [streams EXCEPT ![s].data_count = PushCounts(@, n), ![s].status = "running"]

\* the session table after n pushes to s
Pushed(streams, s, n) ==
    LET counted == [streams EXCEPT ![s].data_count = PushCounts(@, n)]
    IN  IF n > 0 /\ CallbackRaises(s) THEN PushCaught(counted, s) ELSE counted

\* for callback in self.stream_callbacks[stream_id]: await callback(...)
\* inside the try: the callbacks invoked, up to the first one that raises
RECURSIVE Invoked(_)
Invoked(cbs) ==
    IF cbs = <<>> THEN <<>>
    ELSE IF Head(cbs) = "cb_raise" THEN <<Head(cbs)>>
    ELSE <<Head(cbs)>> \o Invoked(Tail(cbs))

\* history after the adapter of s made `pushes` pushes in one step and
\* passed its loop head `loops` times without leaving the loop
Noted(s, pushes, loops) ==
    LET h == hist[s]
        h1 == IF pushes > 0
              THEN [h EXCEPT !.invoked = Invoked(CallbacksOf(s)),
                             !.returned = "no",
                             !.raised = IF CallbackRaises(s)
                                        THEN Min(@ + pushes, 2) ELSE @]
              ELSE h
        h2 == IF h.stopped
              THEN [h1 EXCEPT !.pushesAfterStop = Min(@ + pushes, 2),
                              !.loopsAfterStop = Min(@ + loops, 2)]
              ELSE h1
    IN  [hist EXCEPT ![s] = h2]

Room(s) == MaxItems - Len(stream_results[s])

\* the except clause of a _run_<source>_stream
Failed(streams, s) ==
    [streams EXCEPT ![s].status = "error", ![s].error = "adapter raised"]

\* the status write that ends a _run_<source>_stream normally
Completed(streams, s) == [streams EXCEPT ![s].status = "completed"]

(* ------------------------ _run_custom_stream -------------------------- *)

\* loop head of the custom adapter: break and complete, or sleep(1)
CustomLoop(streams, s, el, pushes) ==
    IF streams[s].duration > 0 /\ el > streams[s].duration
    THEN /\ active_streams' = Completed(streams, s)
         /\ task' = [task EXCEPT ![s] = DoneTask]
         /\ hist' = Noted(s, pushes, 0)
    ELSE /\ active_streams' = streams
         /\ task' = [task EXCEPT ![s].pc = "sleep", ![s].timer = CUSTOM_SLEEP]
         /\ hist' = Noted(s, pushes, 1)

\* first run of the task: start_time = time.time(), first loop head
CustomStart(s) ==
    /\ ~Blocked
    /\ active_streams[s].source = "custom"
    /\ task[s].pc = "ready"
    /\ CustomLoop(active_streams, s, 0, 0)
    /\ ret' = NoCall
    /\ UNCHANGED <<stream_results, stream_callbacks, procs>>

\* the sleep(1) is over: push one sample item, then the loop head
CustomWake(s) ==
    /\ ~Blocked
    /\ active_streams[s].source = "custom"
    /\ task[s].pc = "sleep"
    /\ task[s].timer = 0
    /\ Room(s) > 0
    /\ stream_results' = [stream_results EXCEPT ![s] = PushItems(@, 1)]
    /\ CustomLoop(Pushed(active_streams, s, 1), s, task[s].elapsed, 1)
    /\ ret' = NoCall
    /\ UNCHANGED <<stream_callbacks, procs>>

(* ------------------------- _run_kafka_stream -------------------------- *)

\* first run of the task: KafkaConsumer(...) raises, or the task enters the
\* consumer's blocking iterator with start_time = time.time()
KafkaStart(s) ==
    /\ ~Blocked
    /\ active_streams[s].source = "kafka"
    /\ task[s].pc = "ready"
    /\ \/ /\ active_streams' = Failed(active_streams, s)
          /\ task' = [task EXCEPT ![s] = DoneTask]
       \/ /\ task' = [task EXCEPT ![s].pc = "recv"]
          /\ UNCHANGED active_streams
    /\ ret' = NoCall
    /\ UNCHANGED <<stream_results, stream_callbacks, procs, hist>>

\* the iterator returns a message (or raises): elapsed check, push of a
\* non-empty text, then sleep(0)
KafkaRecv(s) ==
    /\ active_streams[s].source = "kafka"
    /\ task[s].pc = "recv"
    /\ \/ /\ active_streams' = Failed(active_streams, s)
          /\ task' = [task EXCEPT ![s] = DoneTask]
          /\ UNCHANGED <<stream_results, hist>>
       \/ /\ Elapsed(s)
          /\ active_streams' = Completed(active_streams, s)
          /\ task' = [task EXCEPT ![s] = DoneTask]
          /\ hist' = Noted(s, 0, 0)
          /\ UNCHANGED stream_results
       \/ /\ ~Elapsed(s)
          /\ task' = [task EXCEPT ![s].pc = "yield"]
          /\ hist' = Noted(s, 0, 1)
          /\ UNCHANGED <<active_streams, stream_results>>
       \/ /\ ~Elapsed(s)
          /\ Room(s) > 0
          /\ stream_results' = [stream_results EXCEPT ![s] = PushItems(@, 1)]
          /\ active_streams' = Pushed(active_streams, s, 1)
          /\ task' = [task EXCEPT ![s].pc = "yield"]
          /\ hist' = Noted(s, 1, 1)
    /\ ret' = NoCall
    /\ UNCHANGED <<stream_callbacks, procs>>

\* sleep(0) is over: back into the blocking iterator
KafkaResume(s) ==
    /\ ~Blocked
    /\ active_streams[s].source = "kafka"
    /\ task[s].pc = "yield"
    /\ task' = [task EXCEPT ![s].pc = "recv"]
    /\ ret' = NoCall
    /\ UNCHANGED <<active_streams, stream_results, stream_callbacks, procs, hist>>

(* ------------------------ _run_reddit_stream -------------------------- *)

IsSubreddit(query) == query = "r/sub"

\* loop head of the search branch: break and complete; or one search, which
\* raises or pushes the titles and texts it found, then sleep(5)
RedditSearch(s) ==
    IF Elapsed(s)
    THEN /\ active_streams' = Completed(active_streams, s)
         /\ task' = [task EXCEPT ![s] = DoneTask]
         /\ hist' = Noted(s, 0, 0)
         /\ UNCHANGED stream_results
    ELSE \/ /\ active_streams' = Failed(active_streams, s)
            /\ task' = [task EXCEPT ![s] = DoneTask]
            /\ hist' = Noted(s, 0, 0)
            /\ UNCHANGED stream_results
         \/ \E n \in 0..Room(s) :
               /\ stream_results' = [stream_results EXCEPT ![s] = PushItems(@, n)]
               /\ active_streams' = Pushed(active_streams, s, n)
               /\ task' = [task EXCEPT ![s].pc = "sleep", ![s].timer = REDDIT_SLEEP]
               /\ hist' = Noted(s, n, 1)

\* first run of the task: start_time = time.time(), then the comment stream
\* of a subreddit (blocking iterator) or the first search
RedditStart(s) ==
    /\ ~Blocked
    /\ active_streams[s].source = "reddit"
    /\ task[s].pc = "ready"
    /\ IF IsSubreddit(active_streams[s].query)
       THEN /\ task' = [task EXCEPT ![s].pc = "recv"]
            /\ UNCHANGED <<active_streams, stream_results, hist>>
       ELSE RedditSearch(s)
    /\ ret' = NoCall
    /\ UNCHANGED <<stream_callbacks, procs>>

\* the comment stream returns a comment (or raises): elapsed check, push,
\* then sleep(0)
RedditRecv(s) ==
    /\ active_streams[s].source = "reddit"
    /\ task[s].pc = "recv"
    /\ \/ /\ active_streams' = Failed(active_streams, s)
          /\ task' = [task EXCEPT ![s] = DoneTask]
          /\ UNCHANGED <<stream_results, hist>>
       \/ /\ Elapsed(s)
          /\ active_streams' = Completed(active_streams, s)
          /\ task' = [task EXCEPT ![s] = DoneTask]
          /\ hist' = Noted(s, 0, 0)
          /\ UNCHANGED stream_results
       \/ /\ ~Elapsed(s)
          /\ Room(s) > 0
          /\ stream_results' = [stream_results EXCEPT ![s] = PushItems(@, 1)]
          /\ active_streams' = Pushed(active_streams, s, 1)
          /\ task' = [task EXCEPT ![s].pc = "yield"]
          /\ hist' = Noted(s, 1, 1)
    /\ ret' = NoCall
    /\ UNCHANGED <<stream_callbacks, procs>>

\* sleep(0) after a comment is over: back into the blocking iterator
RedditResume(s) ==
    /\ ~Blocked
    /\ active_streams[s].source = "reddit"
    /\ task[s].pc = "yield"
    /\ task' = [task EXCEPT ![s].pc = "recv"]
    /\ ret' = NoCall
    /\ UNCHANGED <<active_streams, stream_results, stream_callbacks, procs, hist>>

\* sleep(5) after a search is over: the loop head again
RedditWake(s) ==
    /\ ~Blocked
    /\ active_streams[s].source = "reddit"
    /\ task[s].pc = "sleep"
    /\ task[s].timer = 0
    /\ RedditSearch(s)
    /\ ret' = NoCall
    /\ UNCHANGED <<stream_callbacks, procs>>

(* ------------------------ _run_twitter_stream ------------------------- *)

\* TweetListener.on_error: the error field is written, the status is not
OnError(streams, s) == [streams EXCEPT ![s].error = "Twitter API error"]

\* first run of the task: stream.filter(...) blocks the event loop
TwitterStart(s) ==
    /\ ~Blocked
    /\ active_streams[s].source = "twitter"
    /\ task[s].pc = "ready"
    /\ task' = [task EXCEPT ![s].pc = "filter"]
    /\ ret' = NoCall
    /\ UNCHANGED <<active_streams, stream_results, stream_callbacks, procs, hist>>

\* after filter() returned: sleep(duration) when duration > 0, else done
AfterFilter(streams, s) ==
    IF streams[s].duration > 0
    THEN /\ active_streams' = streams
         /\ task' = [task EXCEPT ![s].pc = "sleep",
                                 ![s].timer = streams[s].duration]
    ELSE /\ active_streams' = Completed(streams, s)
         /\ task' = [task EXCEPT ![s] = DoneTask]

\* filter() ends: it raises; or on_error disconnects; or on_tweet finds the
\* duration elapsed and disconnects.  An on_tweet before that only creates
\* the coroutine _process_stream_data(...) and never awaits it: no push.
TwitterFilter(s) ==
    /\ active_streams[s].source = "twitter"
    /\ task[s].pc = "filter"
    /\ \/ /\ active_streams' = Failed(active_streams, s)
          /\ task' = [task EXCEPT ![s] = DoneTask]
       \/ AfterFilter(OnError(active_streams, s), s)
       \/ /\ Elapsed(s)
          /\ AfterFilter(active_streams, s)
    /\ ret' = NoCall
    /\ UNCHANGED <<stream_results, stream_callbacks, procs, hist>>

\* sleep(duration) is over: stream.disconnect(), status completed
TwitterWake(s) ==
    /\ ~Blocked
    /\ active_streams[s].source = "twitter"
    /\ task[s].pc = "sleep"
    /\ task[s].timer = 0
    /\ active_streams' = Completed(active_streams, s)
    /\ task' = [task EXCEPT ![s] = DoneTask]
    /\ ret' = NoCall
    /\ UNCHANGED <<stream_results, stream_callbacks, procs, hist>>

(* --------------------------- process_stream --------------------------- *)

\* a scan that does not read the processed flag
FirstUnprocessedAny(buf, i) == IF i <= Len(buf) THEN i ELSE 0

\* the next index >= i whose item has processed = False; 0 when the
\* enumerate() is exhausted
FirstUnprocessed(buf, i) ==
    LET todo == {j \in i..Len(buf) : ~buf[j].processed}
    IN  IF todo = {} THEN 0 ELSE CHOOSE j \in todo : \A k \in todo : j <= k

\* results written back without setting the processed flag
ScoredUnflagged(item) ==
    [item EXCEPT !.processed_text = Process(item.text),
                 !.sentiment = Analyze(Process(item.text)),
                 !.scored = @ + 1]

\* the processed flag visible without the result that belongs to it
ScoredFlagOnly(item) ==
    [item EXCEPT !.processed = TRUE, !.scored = @ + 1]

\* lines 420-428: the item with its results written back
Scored(item) ==
    [item EXCEPT !.processed = TRUE,
                 !.processed_text = Process(item.text),
                 !.sentiment = Analyze(Process(item.text)),
                 !.scored = @ + 1]

\* the item whose scoring raised, marked as handled all the same
AbortedItemFlagged(item) == [item EXCEPT !.processed = TRUE]

\* lines 420-424, 432-433: process() or analyze() raised before any of
\* the writes of 426-428, so the item is as it was
AbortedItem(item) == item

\* the exception caught inside the loop: the coroutine goes on with the
\* item after j
AbortedProcContinues(sid, j) == [pc |-> "suspended", sid |-> sid, i |-> j + 1]

\* lines 432-433: the except clause is outside the for loop, so the
\* coroutine that failed at item j logs and returns
AbortedProc(sid, j) == IdleProc

\* an enumerate() that steps over the item after j
NextIndexSkip(j) == j + 2

\* line 417: enumerate() goes on with the item after j
NextIndex(j) == j + 1

\* the coroutine in slot k runs from index i of the buffer of sid up to its
\* next sleep(0) or to its return; op names the step for ret
ProcessFrom(k, sid, i, op) ==
    LET j == FirstUnprocessed(stream_results[sid], i)
    IN  \/ /\ j = 0
           /\ procs' = [procs EXCEPT ![k] = IdleProc]
           /\ hist' = [hist EXCEPT ![sid].returned = "exhausted"]
           /\ ret' = Call(op, sid, None)
           /\ UNCHANGED stream_results
        \/ /\ j > 0
           /\ stream_results' = [stream_results EXCEPT ![sid][j] = AbortedItem(@)]
           /\ procs' = [procs EXCEPT ![k] = AbortedProc(sid, j)]
           /\ hist' = [hist EXCEPT ![sid].returned = "aborted"]
           /\ ret' = [Call(op, sid, None) EXCEPT !.analyzed = TRUE]
        \/ /\ j > 0
           /\ stream_results' = [stream_results EXCEPT ![sid][j] = Scored(@)]
           /\ procs' = [procs EXCEPT ![k] = [pc |-> "suspended", sid |-> sid, i |-> NextIndex(j)]]
           /\ ret' = [Call(op, sid, "pending") EXCEPT !.analyzed = TRUE]
           /\ UNCHANGED hist

\* a caller awaits process_stream(sid, analyzer, processor)
ProcessStream(sid) ==
    /\ ~Blocked
    /\ \E k \in 1..MaxProcs : procs[k].pc = "idle"
    /\ IF sid \notin Ids
       THEN /\ ret' = Call("process_stream", sid, None)
            /\ UNCHANGED <<stream_results, procs, hist>>
       ELSE LET k == CHOOSE k \in 1..MaxProcs :
                        /\ procs[k].pc = "idle"
                        /\ \A m \in 1..MaxProcs : procs[m].pc = "idle" => k <= m
            IN  ProcessFrom(k, sid, 1, "process_stream")
    /\ UNCHANGED <<active_streams, stream_callbacks, task>>

\* the sleep(0) of a suspended process_stream is over
ProcessResume(k) ==
    /\ ~Blocked
    /\ procs[k].pc = "suspended"
    /\ ProcessFrom(k, procs[k].sid, procs[k].i, "process_resume")
    /\ UNCHANGED <<active_streams, stream_callbacks, task>>

(* ------------------------------ time ---------------------------------- *)

\* a task whose clock or timer is read again
Timed(s) ==
    \/ task[s].pc \in {"sleep", "recv", "yield", "filter"}
    \/ task[s].pc = "ready" /\ active_streams[s].source = "twitter"

\* the most the elapsed time of s is counted to
ElapsedCap(s) ==
    IF active_streams[s].duration > 0 THEN active_streams[s].duration + 1 ELSE 0

\* one second passes: every running task's elapsed time grows and every
\* pending timer runs down
Tick ==
    /\ \E s \in Ids :
          /\ Timed(s)
          /\ \/ task[s].timer > 0
             \/ task[s].elapsed < ElapsedCap(s)
    /\ task' = [s \in Ids |->
                  IF Timed(s)
                  THEN [task[s] EXCEPT
                          !.elapsed = Min(@ + 1, ElapsedCap(s)),
                          !.timer = Max(@ - 1, 0)]
                  ELSE task[s]]
    /\ ret' = NoCall
    /\ UNCHANGED <<active_streams, stream_results, stream_callbacks, procs, hist>>

(* ------------------------- synchronous calls -------------------------- *)

\* what stop_stream writes over the status it finds
StopStatus(old) == "stopped"

StopStream(sid) ==
    /\ ~Blocked
    /\ IF sid \notin Ids
       THEN /\ ret' = Call("stop_stream", sid, "ValueError")
            /\ UNCHANGED <<active_streams, hist>>
       ELSE /\ active_streams' =
                  [active_streams EXCEPT ![sid].status = StopStatus(@)]
            /\ hist' = IF active_streams[sid].status = "running"
                       THEN [hist EXCEPT ![sid].stopped = TRUE]
                       ELSE hist
            /\ ret' = Call("stop_stream", sid, None)
    /\ UNCHANGED <<stream_results, stream_callbacks, task, procs>>

\* get_stream_status: a read; what it returns or raises in the current state
GetStreamStatus(sid) ==
    IF sid \notin DOMAIN active_streams THEN "ValueError" ELSE active_streams[sid]

\* results[-limit:]: the whole list when limit = 0
LastItems(results, limit) ==
    IF limit = 0 \/ limit >= Len(results)
    THEN results
    ELSE SubSeq(results, Len(results) - limit + 1, Len(results))

\* get_stream_results: a read; what it returns or raises in the current state
GetStreamResults(sid, limit, processed_only) ==
    IF sid \notin DOMAIN stream_results THEN "ValueError"
    ELSE LET results == stream_results[sid]
             kept == IF processed_only
                     THEN SelectSeq(results, LAMBDA item : item.processed)
                     ELSE results
         IN  LastItems(kept, limit)

RECURSIVE SumLen(_, _)
SumLen(f, S) ==
    IF S = {} THEN 0
    ELSE LET x == CHOOSE y \in S : TRUE
         IN  Len(f[x]) + SumLen(f, S \ {x})

NumCallbacks == SumLen(stream_callbacks, DOMAIN stream_callbacks)

\* the callback table after register_callback(sid, cb)
Registered(cbs, sid, cb) ==
    IF sid \notin DOMAIN cbs
    THEN cbs @@ (sid :> <<cb>>)
    ELSE [cbs EXCEPT ![sid] = Append(@, cb)]

RegisterCallback(sid, cb) ==
    /\ ~Blocked
    /\ NumCallbacks < MaxCallbacks
    /\ stream_callbacks' = Registered(stream_callbacks, sid, cb)
    /\ ret' = Call("register_callback", sid, None)
    /\ UNCHANGED <<active_streams, stream_results, task, procs, hist>>

(* ------------------------------ Next ---------------------------------- *)

\* the queries tried for a source: only the reddit adapter reads the query
QueriesOf(src) == IF src = "reddit" THEN Queries ELSE {"term"}

\* The life cycle of sessions of every source: start, the adapter tasks,
\* time and stop.
Next ==
    \/ /\ \E src \in Sources, d \in Durations :
             \E q \in QueriesOf(src) : StartStream(src, q, d)
       /\ UNCHANGED engine
    \/ /\ \E s \in Ids : CustomStart(s)
       /\ UNCHANGED engine
    \/ /\ \E s \in Ids : CustomWake(s)
       /\ UNCHANGED engine
    \/ /\ \E s \in Ids : KafkaStart(s)
       /\ UNCHANGED engine
    \/ /\ \E s \in Ids : KafkaRecv(s)
       /\ UNCHANGED engine
    \/ /\ \E s \in Ids : KafkaResume(s)
       /\ UNCHANGED engine
    \/ /\ \E s \in Ids : RedditStart(s)
       /\ UNCHANGED engine
    \/ /\ \E s \in Ids : RedditRecv(s)
       /\ UNCHANGED engine
    \/ /\ \E s \in Ids : RedditResume(s)
       /\ UNCHANGED engine
    \/ /\ \E s \in Ids : RedditWake(s)
       /\ UNCHANGED engine
    \/ /\ \E s \in Ids : TwitterStart(s)
       /\ UNCHANGED engine
    \/ /\ \E s \in Ids : TwitterFilter(s)
       /\ UNCHANGED engine
    \/ /\ \E s \in Ids : TwitterWake(s)
       /\ UNCHANGED engine
    \/ /\ Tick
       /\ UNCHANGED engine
    \/ /\ \E sid \in Ids : StopStream(sid)
       /\ UNCHANGED engine

Spec == Init /\ [][Next]_vars

\* One session of the custom adapter, just returned by start_stream, with
\* everything that can act on it: its adapter and pushes, callbacks,
\* process_stream calls and stop.
InitSession ==
    /\ \E d \in Durations :
          active_streams = (1 :> Launched(NewSession("custom", "term", d)))
    /\ stream_results = (1 :> <<>>)
    /\ stream_callbacks = <<>>
    /\ task = (1 :> NewTask)
    /\ procs = [k \in 1..MaxProcs |-> IdleProc]
    /\ ret = Call("start_stream", 1, "stream_id")
    /\ hist = (1 :> NoHist)
    /\ analyzer = TheAnalyzer
    /\ detector = TheDetector
    /\ result = NoResult

NextSession ==
    \/ /\ \E s \in Ids : CustomStart(s)
       /\ UNCHANGED engine
    \/ /\ \E s \in Ids : CustomWake(s)
       /\ UNCHANGED engine
    \/ /\ Tick
       /\ UNCHANGED engine
    \/ /\ \E sid \in Ids \cup {NoSuchId} : StopStream(sid)
       /\ UNCHANGED engine
    \/ /\ \E sid \in Ids \cup {NoSuchId}, cb \in Callbacks : RegisterCallback(sid, cb)
       /\ UNCHANGED engine
    \/ /\ \E sid \in Ids \cup {NoSuchId} : ProcessStream(sid)
       /\ UNCHANGED engine
    \/ /\ \E k \in 1..MaxProcs : ProcessResume(k)
       /\ UNCHANGED engine

SpecSession == InitSession /\ [][NextSession]_vars

\* The scoring engine alone: an analyzer or a detector with any set of
\* loaded backends (the two are separate objects that share nothing),
\* called on texts on which each scoring function returns any of its
\* outcomes.
InitEnsemble ==
    /\ active_streams = <<>>
    /\ stream_results = <<>>
    /\ stream_callbacks = <<>>
    /\ task = <<>>
    /\ procs = [k \in 1..MaxProcs |-> IdleProc]
    /\ ret = NoCall
    /\ hist = <<>>
    /\ \/ analyzer \in Analyzers /\ detector = TheDetector
       \/ analyzer = TheAnalyzer /\ detector \in Detectors
    /\ result = NoResult

NextEnsemble ==
    \/ /\ \E outcome \in SentimentOutcomes : AnalyzeEnsemble(outcome)
       /\ UNCHANGED manager
    \/ /\ \E outcome \in EmotionOutcomes : DetectEnsemble(outcome)
       /\ UNCHANGED manager

SpecEnsemble == InitEnsemble /\ [][NextEnsemble]_vars

\* A step of the adapter task of s that does not wait for its source: the
\* event loop runs a task that is ready or whose timer has expired.
AdapterStep(s) ==
    /\ s \in Ids
    /\ \/ CustomStart(s) \/ CustomWake(s)
       \/ KafkaStart(s) \/ KafkaResume(s)
       \/ RedditStart(s) \/ RedditResume(s) \/ RedditWake(s)
       \/ TwitterStart(s) \/ TwitterWake(s)
    /\ UNCHANGED engine

\* Time passes and the event loop runs its tasks; whether the source ever
\* delivers another item (KafkaRecv, RedditRecv, TwitterFilter) is left to
\* the source.
Fairness ==
    /\ WF_vars(Tick /\ UNCHANGED engine)
    /\ \A s \in 1..MaxSessions : WF_vars(AdapterStep(s))

SpecLive == Init /\ [][Next]_vars /\ Fairness

\* Two custom sessions side by side, each with a callback registered, fed
\* by their adapters while process_stream calls run on either of them.
InitPair ==
    /\ \E d \in Durations :
          active_streams = (1 :> Launched(NewSession("custom", "term", d)))
                           @@ (2 :> Launched(NewSession("custom", "term", 0)))
    /\ stream_results = (1 :> <<>>) @@ (2 :> <<>>)
    /\ \E cb \in Callbacks :
          stream_callbacks = (1 :> <<cb>>) @@ (2 :> <<"cb_ok">>)
    /\ task = (1 :> NewTask) @@ (2 :> NewTask)
    /\ procs = [k \in 1..MaxProcs |-> IdleProc]
    /\ ret = Call("register_callback", 2, None)
    /\ hist = (1 :> NoHist) @@ (2 :> NoHist)
    /\ analyzer = TheAnalyzer
    /\ detector = TheDetector
    /\ result = NoResult

NextPair ==
    \/ /\ \E s \in Ids : CustomStart(s)
       /\ UNCHANGED engine
    \/ /\ \E s \in Ids : CustomWake(s)
       /\ UNCHANGED engine
    \/ /\ Tick
       /\ UNCHANGED engine
    \/ /\ \E sid \in Ids : ProcessStream(sid)
       /\ UNCHANGED engine
    \/ /\ \E k \in 1..MaxProcs : ProcessResume(k)
       /\ UNCHANGED engine

SpecPair == InitPair /\ [][NextPair]_vars

\* A session whose adapter task has returned: a kafka session whose
\* consumer raised or whose duration ran out, or a custom session whose
\* duration ran out, stopped afterwards or not, holding the items pushed
\* until then, none of them processed yet.
Finished ==
    { [sess |-> [NewSession("kafka", "term", d) EXCEPT
                    !.status = "error", !.error = "adapter raised", !.data_count = n],
       n |-> n] : d \in Durations, n \in 0..MaxItems }
    \cup
    { [sess |-> [NewSession("kafka", "term", 1) EXCEPT
                    !.status = "completed", !.data_count = n],
       n |-> n] : n \in 0..MaxItems }
    \cup
    { [sess |-> [NewSession("custom", "term", 1) EXCEPT
                    !.status = "completed", !.data_count = n],
       n |-> n] : n \in 1..Min(2, MaxItems) }

InitDrain ==
    /\ \E f \in Finished, stopped \in BOOLEAN :
          /\ active_streams =
                (1 :> IF stopped THEN [f.sess EXCEPT !.status = StopStatus(@)]
                      ELSE f.sess)
          /\ stream_results = (1 :> PushItems(<<>>, f.n))
          /\ ret = IF stopped THEN Call("stop_stream", 1, None) ELSE NoCall
    /\ stream_callbacks = <<>>
    /\ task = (1 :> DoneTask)
    /\ procs = [k \in 1..MaxProcs |-> IdleProc]
    /\ hist = (1 :> NoHist)
    /\ analyzer = TheAnalyzer
    /\ detector = TheDetector
    /\ result = NoResult

NextDrain ==
    \/ /\ \E sid \in Ids : ProcessStream(sid)
       /\ UNCHANGED engine
    \/ /\ \E k \in 1..MaxProcs : ProcessResume(k)
       /\ UNCHANGED engine

\* process_stream suspends in asyncio.sleep(0) only: the event loop runs it
\* again on its next iteration.
FairDrain == \A k \in 1..MaxProcs : WF_vars(ProcessResume(k) /\ UNCHANGED engine)

SpecDrain == InitDrain /\ [][NextDrain]_vars /\ FairDrain

(* ============================== claims ================================ *)

ProcessOps == {"process_stream", "process_resume"}

\* C1: once a session's status is completed, error or stopped, no later
\* step writes a different status.
C1_TerminalIsFinal ==
    [][\A s \in Ids :
          active_streams[s].status \in Terminal
             => active_streams'[s].status = active_streams[s].status]_vars

\* C2: stop_stream on a running session sets its status to stopped, and
\* no later step (no push in particular) makes a stopped session running.
C2_StoppedNeverRunning ==
    [][\A s \in Ids :
          /\ (ret'.op = "stop_stream" /\ ret'.sid = s
                 /\ active_streams[s].status = "running")
                => active_streams'[s].status = "stopped"
          /\ active_streams[s].status = "stopped"
                => active_streams'[s].status # "running"]_vars

\* C2 witness: a session stopped while running is still stopped after its
\* adapter pushed again.
C2_Witness ==
    \E s \in Ids :
       /\ hist[s].stopped
       /\ hist[s].pushesAfterStop >= 1
       /\ active_streams[s].status = "stopped"

\* C3: stop_stream on a session that is not running raises nothing and
\* leaves the session as it was.
C3_StopOnlyFromRunning ==
    [][\A s \in Ids :
          (ret'.op = "stop_stream" /\ ret'.sid = s
              /\ active_streams[s].status # "running")
             => /\ ret'.out = None
                /\ active_streams'[s] = active_streams[s]
                /\ stream_results'[s] = stream_results[s]]_vars

\* C4: after stop_stream stopped a running session its buffer grows by at
\* most the one push that was in flight.
C4_NoItemsAfterStop ==
    \A s \in Ids : hist[s].stopped => hist[s].pushesAfterStop <= 1

\* C5: the adapter of a session stopped while running observes the stop
\* within one loop iteration and ends: it begins at most one more iteration
\* of its loop after the stop.
C5_StopObserved ==
    \A s \in Ids : hist[s].stopped => hist[s].loopsAfterStop <= 1

\* C6: a session's data_count equals the length of its buffer.
C6_CountIsLength ==
    \A s \in Ids : active_streams[s].data_count = Len(stream_results[s])

\* C6 witness: a stopped session with items, one of them scored, whose last
\* push ran into a raising callback.
C6_Witness ==
    \E s \in Ids :
       /\ Len(stream_results[s]) >= 2
       /\ stream_results[s][1].processed
       /\ hist[s].stopped
       /\ hist[s].invoked = <<"cb_raise">>

\* C7: a start_stream that is rejected for its source leaves the ids of
\* the session table and of the results table as they were.
C7_UnknownSourceNoSession ==
    [][(ret'.op = "start_stream" /\ ret'.out = "ValueError")
          => /\ DOMAIN active_streams' = DOMAIN active_streams
             /\ DOMAIN stream_results' = DOMAIN stream_results]_vars

\* C8: a call given an id that is not in the session table raises the
\* not-found error and changes nothing.
C8_UnknownIdRejected ==
    [][/\ GetStreamStatus(NoSuchId) = "ValueError"
       /\ \A limit \in 0..MaxItems, po \in BOOLEAN :
             GetStreamResults(NoSuchId, limit, po) = "ValueError"
       /\ (ret'.op \in {"stop_stream", "process_stream", "register_callback"}
              /\ ret'.sid \notin Ids)
             => /\ ret'.out = "ValueError"
                /\ UNCHANGED <<active_streams, stream_results,
                               stream_callbacks, task, procs, hist>>]_vars

\* C9: under concurrent process_stream calls and pushes no item is removed
\* or altered once processed, each item is scored at most once (exactly
\* once when flagged processed), and a call that reaches the end of the
\* buffer leaves every item processed.
C9_ScoredOnce ==
    [][\A s \in Ids :
          LET old == stream_results[s]
              new == stream_results'[s]
          IN  /\ Len(new) >= Len(old)
              /\ \A i \in 1..Len(old) :
                    /\ new[i].text = old[i].text
                    /\ old[i].processed => new[i] = old[i]
              /\ \A i \in 1..Len(new) :
                    /\ new[i].scored <= 1
                    /\ new[i].processed <=> new[i].scored = 1
              /\ hist'[s].returned = "exhausted"
                    => \A i \in 1..Len(new) : new[i].processed]_vars

\* C9 witness: two process_stream calls suspended on the same session, each
\* past an item, with every item of the buffer scored.
C9_Witness ==
    /\ procs[1].pc = "suspended"
    /\ procs[2].pc = "suspended"
    /\ procs[1].sid = procs[2].sid
    /\ procs[1].i # procs[2].i
    /\ LET buf == stream_results[procs[1].sid]
       IN  /\ Len(buf) >= 2
           /\ \A i \in 1..Len(buf) : buf[i].processed

LoadedOf(r) ==
    IF r.kind = "sentiment" THEN analyzer.models \cap Backends
    ELSE detector.models \cap EmotionBackends

\* the configured weights of that object
WeightsOf(r) ==
    IF r.kind = "sentiment" THEN EnsembleWeights(analyzer)
    ELSE EmotionWeights(detector)

\* C11: when the scoring function of a loaded sentiment backend raises, the
\* ensemble call does not raise; the backend is left out of this call and
\* the weights are renormalized over the backends that returned.
C11_BackendFailureExcluded ==
    result.kind = "sentiment" =>
        LET returned == { m \in LoadedOf(result) : ~result.outcome[m].raised }
        IN  /\ ~result.raised
            /\ DOMAIN result.normalized_weights = returned

\* C12: with no scoring backend loaded, whatever the weights, the sentiment
\* ensemble returns neutral with confidence 0 and the emotion ensemble
\* returns the all-zero vector over the six emotions; neither raises.
C12_NoBackendDefault ==
    (result.kind # "none" /\ LoadedOf(result) = {}) =>
        /\ ~result.raised
        /\ result.kind = "sentiment" =>
              result.sentiment = "neutral" /\ result.confidence = Rat(0, 1)
        /\ result.kind = "emotion" =>
              /\ DOMAIN result.scores = Emotions
              /\ \A e \in Emotions : result.scores[e] = Rat(0, 1)

C12_Witness ==
    /\ result.kind = "emotion"
    /\ detector.models = {"custom"}
    /\ detector.weights # DefaultEmotionWeights
    /\ \A e \in Emotions : result.scores[e] = Rat(0, 1)

\* C13: in a call that returns with a non-empty set of loaded backends, the
\* normalized weights are defined for exactly the loaded backends, each is
\* the configured weight over the total configured weight of the loaded
\* ones, they sum to 1, and the combined scores do not depend on what a
\* backend that is not loaded would have returned.
C13_WeightsRenormalized ==
    (result.kind # "none" /\ ~result.raised /\ LoadedOf(result) # {}) =>
        LET loaded == LoadedOf(result)
            weights == WeightsOf(result)
            total == RatSum(weights, loaded)
        IN  /\ DOMAIN result.normalized_weights = loaded
            /\ \A m \in loaded :
                  result.normalized_weights[m] = RatDiv(weights[m], total)
            /\ RatSum(result.normalized_weights, loaded) = Rat(1, 1)
            /\ result.kind = "sentiment" =>
                  \A o \in SentimentOutcomes :
                      (\A m \in loaded : o[m] = result.outcome[m]) =>
                          AnalyzeWithEnsemble(analyzer, o).scores = result.scores
            /\ result.kind = "emotion" =>
                  \A o \in EmotionOutcomes :
                      (\A m \in loaded : o[m] = result.outcome[m]) =>
                          DetectWithEnsemble(detector, o).scores = result.scores

C13_Witness ==
    /\ result.kind = "sentiment"
    /\ ~result.raised
    /\ analyzer.models = {"bert", "textblob", "custom"}
    /\ result.normalized_weights["bert"] = Rat(2, 5)
    /\ result.normalized_weights["textblob"] = Rat(3, 5)

\* C14: the sentiment ensemble labels positive iff the positive score is
\* strictly greater than both others, negative iff the negative score is
\* strictly greater than both others, neutral otherwise (ties, all zero);
\* the confidence is the combined score of the bucket the label names.
C14_LabelRule ==
    (result.kind = "sentiment" /\ ~result.raised) =>
        LET s == result.scores
            posWins == /\ RatGt(s["positive"], s["negative"])
                       /\ RatGt(s["positive"], s["neutral"])
            negWins == /\ RatGt(s["negative"], s["positive"])
                       /\ RatGt(s["negative"], s["neutral"])
        IN  /\ (result.sentiment = "positive") <=> posWins
            /\ (result.sentiment = "negative") <=> negWins
            /\ (result.sentiment = "neutral") <=> (~posWins /\ ~negWins)
            /\ result.confidence = s[result.sentiment]

\* an exact tie of the two leading buckets: neutral, with neutral's score
C14_Witness ==
    /\ result.kind = "sentiment"
    /\ ~result.raised
    /\ result.scores["positive"] = result.scores["negative"]
    /\ RatGt(result.scores["positive"], result.scores["neutral"])
    /\ RatGt(result.scores["neutral"], Rat(0, 1))
    /\ result.sentiment = "neutral"
    /\ result.confidence = result.scores["neutral"]

\* C15: with vader, the one backend that reports three scores, loaded alone,
\* the combined scores are vader's own scores and the label and confidence
\* are those of the label rule on them, whatever positive weight vader has.
C15_SingleBackendIdentity ==
    (result.kind = "sentiment" /\ ~result.raised
        /\ LoadedOf(result) = {"vader"}) =>
        LET own == result.outcome["vader"].scores
            label == IF own.positive.num * own.negative.den > own.negative.num * own.positive.den
                        /\ own.positive.num * own.neutral.den > own.neutral.num * own.positive.den
                     THEN "positive"
                     ELSE IF own.negative.num * own.positive.den > own.positive.num * own.negative.den
                             /\ own.negative.num * own.neutral.den > own.neutral.num * own.negative.den
                     THEN "negative"
                     ELSE "neutral"
        IN  /\ \A b \in {"positive", "negative", "neutral"} : result.scores[b] = own[b]
            /\ result.sentiment = label
            /\ result.confidence = own[label]

C15_Witness ==
    /\ result.kind = "sentiment"
    /\ ~result.raised
    /\ analyzer.models = {"vader", "custom"}
    /\ analyzer.weights["vader"] = Rat(1, 2)
    /\ result.normalized_weights["vader"] = Rat(1, 1)
    /\ result.sentiment = "positive"
    /\ result.confidence = Rat(8, 10)

(* ------------------------------ streams ------------------------------- *)

\* C16: a failed launch of a known source does not make start_stream raise:
\* it returns the id and leaves the session in status error with its error
\* field set; and in every state a session in status error has an error.
C16_LaunchFailureRecorded ==
    /\ \A s \in Ids :
          active_streams[s].status = "error" => active_streams[s].error # None
    /\ (/\ ret.op = "start_stream"
        /\ ret.sid \in Ids
        /\ active_streams[ret.sid].source \in KnownSources
        /\ task[ret.sid].pc = "none")
       => /\ ret.out = "stream_id"
          /\ active_streams[ret.sid].status = "error"
          /\ active_streams[ret.sid].error # None

C16_Witness ==
    /\ ret.op = "start_stream"
    /\ ret.sid \in Ids
    /\ active_streams[ret.sid].source = "reddit"
    /\ task[ret.sid].pc = "none"
    /\ active_streams[ret.sid].status = "error"

\* C17: a push during which a registered callback raises leaves the item in
\* the buffer with data_count incremented, does not turn the status into
\* error, and leaves the adapter in its loop (asleep until its next push)
\* or ended by its duration.
C17_CallbackFailureContained ==
    [][\A s \in Ids :
          (Len(stream_results'[s]) > Len(stream_results[s]) /\ CallbackRaises(s)) =>
              /\ Len(stream_results'[s]) = Len(stream_results[s]) + 1
              /\ stream_results'[s][Len(stream_results'[s])].text
                    = SampleText(Len(stream_results'[s]))
              /\ active_streams'[s].data_count = active_streams[s].data_count + 1
              /\ active_streams'[s].status # "error"
              /\ active_streams'[s].error = active_streams[s].error
              /\ \/ task'[s].pc = "sleep"
                 \/ task'[s].pc = "done" /\ active_streams'[s].status = "completed"
      ]_vars

\* two pushes in each of which a callback raised: the adapter went on
C17_Witness ==
    \E s \in Ids :
       /\ hist[s].raised = 2
       /\ Len(stream_results[s]) = 2
       /\ active_streams[s].data_count = 2
       /\ active_streams[s].status = "running"

\* C18: each push to a session invokes every callback registered for that
\* session once, in registration order, and nothing else, also when an
\* earlier callback raises.
C18_EveryCallbackInvoked ==
    [][\A s \in Ids :
          Len(stream_results'[s]) > Len(stream_results[s]) =>
              hist'[s].invoked = CallbacksOf(s)
      ]_vars

\* C19: for every limit >= 0 and both values of processed_only,
\* get_stream_results returns the last min(limit, n) of the n candidate
\* items (all items, or the processed ones), in arrival order.
C19_LastLimitItems ==
    \A s \in Ids, limit \in 0..(MaxItems + 1), processed_only \in BOOLEAN :
        LET candidates == IF processed_only
                          THEN SelectSeq(stream_results[s], LAMBDA item : item.processed)
                          ELSE stream_results[s]
            n == Len(candidates)
            k == IF limit < n THEN limit ELSE n
        IN  GetStreamResults(s, limit, processed_only)
                = [i \in 1..k |-> candidates[n - k + i]]

\* C20: a running session with duration > 0 eventually leaves status
\* running (completed, unless it is stopped or its adapter raises), for
\* every source and also when the source delivers nothing more.
C20_DurationEnds ==
    \A s \in 1..MaxSessions :
        (s \in Ids /\ active_streams[s].status = "running"
                   /\ active_streams[s].duration > 0)
        ~> (s \in Ids /\ active_streams[s].status # "running")

\* C21: a session of the custom adapter started with duration 1 has at
\* least 8 items when it has completed (the claim: completed within 1.5 s,
\* one item every 0.1 s).
C21_EightItemsInOneSecond ==
    \A s \in Ids :
        (/\ active_streams[s].source = "custom"
         /\ active_streams[s].duration = 1
         /\ active_streams[s].status = "completed")
        => active_streams[s].data_count >= 8

\* C22: in every state, an item of a buffer has processed = TRUE exactly
\* when a sentiment result is stored in it.
C22_FlagIffResult ==
    \A s \in Ids : \A j \in 1..Len(stream_results[s]) :
        stream_results[s][j].processed <=> stream_results[s][j].sentiment # None

\* a call suspended after the first item, the second item not yet scored
C22_Witness ==
    \E s \in Ids :
        /\ Len(stream_results[s]) = 2
        /\ stream_results[s][1].processed
        /\ stream_results[s][1].sentiment # None
        /\ ~stream_results[s][2].processed
        /\ stream_results[s][2].sentiment = None
        /\ \E k \in 1..MaxProcs : procs[k].pc = "suspended" /\ procs[k].sid = s

\* C23: when start_stream has returned an id for a known source, the
\* adapter task has not run yet: the session exists with an empty buffer and
\* data_count 0, and its status is running (task created, not started) or
\* error (no task), never initializing.
C23_ReturnsBeforeAdapterRuns ==
    (ret.op = "start_stream" /\ ret.out = "stream_id")
    => /\ ret.sid \in Ids
       /\ active_streams[ret.sid].source \in KnownSources
       /\ stream_results[ret.sid] = <<>>
       /\ active_streams[ret.sid].data_count = 0
       /\ \/ active_streams[ret.sid].status = "running" /\ task[ret.sid] = NewTask
          \/ active_streams[ret.sid].status = "error" /\ task[ret.sid] = NoTask

\* start_stream has just returned the id of a launched custom session
C23_Witness ==
    /\ ret.op = "start_stream"
    /\ ret.out = "stream_id"
    /\ ret.sid \in Ids
    /\ active_streams[ret.sid].source = "custom"
    /\ active_streams[ret.sid].status = "running"
    /\ task[ret.sid].pc = "ready"

\* C24: in every state the processed items of a buffer form a prefix of it:
\* no processed item comes after an unprocessed one, whatever the
\* interleaving of pushes and of process_stream calls, aborted ones included.
C24_ProcessedPrefix ==
    \A s \in Ids : \A j, m \in 1..Len(stream_results[s]) :
        (j < m /\ stream_results[s][m].processed) => stream_results[s][j].processed

\* a call aborted at the second item while another call is suspended
C24_Witness ==
    \E s \in Ids :
        /\ hist[s].returned = "aborted"
        /\ Len(stream_results[s]) = 2
        /\ stream_results[s][1].processed
        /\ ~stream_results[s][2].processed
        /\ \E k \in 1..MaxProcs : procs[k].pc = "suspended" /\ procs[k].sid = s

\* C29: when scoring raises at an item, process_stream returns without
\* raising; no item changes (the failing item keeps processed = FALSE and no
\* sentiment, the items before it keep their results, no later item is
\* scored), the call is over, and a later call starts again at that item.
C29_ScoringFailureContained ==
    [][(ret'.op \in ProcessOps /\ ret'.analyzed /\ ret'.out # "pending")
       => LET s == ret'.sid
              from == IF ret'.op = "process_stream"
                      THEN {1}
                      ELSE {procs[k].i : k \in {m \in 1..MaxProcs :
                                procs[m].pc = "suspended" /\ procs'[m].pc = "idle"}}
          IN  /\ ret'.out = None
              /\ stream_results' = stream_results
              /\ \A k \in 1..MaxProcs : procs'[k] # procs[k] => procs'[k] = IdleProc
              /\ from # {}
              /\ \A i \in from :
                    LET j == FirstUnprocessed(stream_results[s], i)
                    IN  /\ j > 0
                        /\ ~stream_results'[s][j].processed
                        /\ stream_results'[s][j].sentiment = None
                        /\ FirstUnprocessed(stream_results'[s], 1) = j]_vars

\* a call scored the first item, was resumed and failed at the second
C29_Witness ==
    /\ ret.op = "process_resume"
    /\ ret.analyzed
    /\ ret.out = None
    /\ ret.sid \in Ids
    /\ Len(stream_results[ret.sid]) = 2
    /\ stream_results[ret.sid][1].scored = 1
    /\ ~stream_results[ret.sid][2].processed
    /\ \A k \in 1..MaxProcs : procs[k].pc = "idle"

\* C26: a session whose source reported a failure ends in status error: no
\* session is running or completed with an error recorded.
C26_ErrorImpliesErrorStatus ==
    \A s \in Ids :
        active_streams[s].status \in {"running", "completed"}
        => active_streams[s].error = None

\* C28: whenever the sentiment ensemble returns, for any loaded backends and
\* in-range raw scores, each of the three combined scores lies in [0, 1],
\* their sum is at most 1, and the confidence lies in [0, 1].
C28_ScoresInRange ==
    (result.kind = "sentiment" /\ ~result.raised)
    => /\ \A b \in {"positive", "negative", "neutral"} :
             /\ ~RatGt(Zero, result.scores[b])
             /\ ~RatGt(result.scores[b], One)
       /\ ~RatGt(RatAdd(result.scores["positive"],
                        RatAdd(result.scores["negative"], result.scores["neutral"])),
                 One)
       /\ ~RatGt(Zero, result.confidence)
       /\ ~RatGt(result.confidence, One)

\* all three backends returned, TextBlob with polarity 0, and the combined
\* scores use up the whole unit
C28_Witness ==
    /\ result.kind = "sentiment"
    /\ ~result.raised
    /\ LoadedOf(result) = Backends
    /\ result.outcome["textblob"].scores.polarity = Zero
    /\ RatAdd(result.scores["positive"],
              RatAdd(result.scores["negative"], result.scores["neutral"])) = One
    /\ RatGt(result.confidence, Zero)
    /\ RatGt(One, result.confidence)

\* C27: in the emotion ensemble with the transformer and the rule-based
\* backend both loaded, when the transformer's scoring call raises, the call
\* does not raise and the returned vector equals, for each of the six
\* emotions, the score of the rule-based backend alone.
C27_TransformerFailureGivesRuleBased ==
    (/\ result.kind = "emotion"
     /\ LoadedOf(result) = EmotionBackends
     /\ result.outcome["transformer"].raised)
    => /\ ~result.raised
       /\ \A e \in Emotions :
             result.scores[e] = DetectWithRuleBased(detector, result.outcome)[e]

\* the transformer raised, the rule-based backend counted one joy word, and
\* the ensemble returned joy = 1
C27_Witness ==
    /\ result.kind = "emotion"
    /\ LoadedOf(result) = EmotionBackends
    /\ result.outcome["transformer"].raised
    /\ ~result.outcome["rule-based"].raised
    /\ result.scores["joy"] = One
    /\ result.scores["anger"] = Zero

\* C27 as stated: in that case the failed transformer is moreover treated
\* as unavailable, the weights being renormalized over the rule-based
\* backend alone.
C27_TransformerExcluded ==
    (/\ result.kind = "emotion"
     /\ LoadedOf(result) = EmotionBackends
     /\ result.outcome["transformer"].raised)
    => /\ ~result.raised
       /\ \A e \in Emotions :
             result.scores[e] = DetectWithRuleBased(detector, result.outcome)[e]
       /\ DOMAIN result.normalized_weights = {"rule-based"}
       /\ result.normalized_weights["rule-based"] = One

\* C25: a step that pushes to a session appends exactly one item
\* (processed FALSE, no sentiment, no emotions) to that session's buffer and
\* adds 1 to its data_count; the items already there, the session's error
\* and its status (but for the completed the adapter writes on its own
\* return in the same step), every other session's record and buffer, and
\* all callbacks are unchanged. A step of process_stream changes neither the
\* length of any buffer nor the text of any item.
C25_Frame ==
    [][/\ \A s \in Ids :
             Len(stream_results'[s]) # Len(stream_results[s])
             => LET n == Len(stream_results[s])
                    item == stream_results'[s][n + 1]
                IN  /\ Len(stream_results'[s]) = n + 1
                    /\ SubSeq(stream_results'[s], 1, n) = stream_results[s]
                    /\ ~item.processed
                    /\ item.sentiment = None
                    /\ item.emotions = None
                    /\ active_streams'[s].data_count = active_streams[s].data_count + 1
                    /\ active_streams'[s].error = active_streams[s].error
                    /\ \/ active_streams'[s].status = active_streams[s].status
                       \/ /\ active_streams'[s].status = "completed"
                          /\ task'[s] = DoneTask
                    /\ \A o \in Ids \ {s} :
                          /\ active_streams'[o] = active_streams[o]
                          /\ stream_results'[o] = stream_results[o]
                    /\ stream_callbacks' = stream_callbacks
       /\ ret'.op \in ProcessOps
          => \A s \in Ids :
                /\ Len(stream_results'[s]) = Len(stream_results[s])
                /\ \A j \in 1..Len(stream_results[s]) :
                      stream_results'[s][j].text = stream_results[s][j].text]_vars

\* the first session was pushed to while a call was suspended on it and the
\* second session held a processed item
C25_Witness ==
    /\ Ids = {1, 2}
    /\ Len(stream_results[1]) = 2
    /\ stream_results[1][1].processed
    /\ ~stream_results[1][2].processed
    /\ hist[1].returned = "no"
    /\ Len(stream_results[2]) = 1
    /\ stream_results[2][1].processed
    /\ \E k \in 1..MaxProcs : procs[k].pc = "suspended" /\ procs[k].sid = 1

\* C30: once the adapter task of a session has returned, every
\* process_stream call on it eventually returns, and when a call whose
\* scoring never raised returns, every item of the buffer is processed;
\* whether the session is completed, in error or stopped.
C30_DrainTerminates ==
    /\ \A k \in 1..MaxProcs :
          (procs[k].pc = "suspended" /\ task[procs[k].sid] = DoneTask)
          ~> (procs[k].pc = "idle")
    /\ [][(/\ ret'.op \in ProcessOps
           /\ ret'.sid \in Ids
           /\ task[ret'.sid] = DoneTask
           /\ ret'.out = None
           /\ ~ret'.analyzed)
          => \A j \in 1..Len(stream_results'[ret'.sid]) :
                stream_results'[ret'.sid][j].processed]_vars

\* a call on a session in error scored both items and returned
C30_Witness ==
    /\ ret.op = "process_resume"
    /\ ret.out = None
    /\ ~ret.analyzed
    /\ ret.sid \in Ids
    /\ active_streams[ret.sid].status = "error"
    /\ task[ret.sid] = DoneTask
    /\ Len(stream_results[ret.sid]) = 2
    /\ \A j \in 1..2 : stream_results[ret.sid][j].scored = 1
    /\ \A k \in 1..MaxProcs : procs[k].pc = "idle"

====
